---- MODULE Spec2Model ----
(***************************************************************************)
(* Retrieval-augmented search pipeline: the FastAPI query service          *)
(* (backend/backend.py), the command-line query (query_pinecone_db.py) and *)
(* the Airtable ingestion run (cosmos_airtable_ingestion_script.py), with  *)
(* the Pinecone index and the sentence-transformer model as the            *)
(* environment they call.                                                  *)
(***************************************************************************)
EXTENDS Integers, Sequences, FiniteSets, TLC

(* ------------------------------ bounds -------------------------------- *)
\* longest query text, in characters
MaxQueryLen == 2
\* largest top_k a caller sends (the smallest is -1)
MaxTopK == 2
\* requests one server process handles
MaxRequests == 2
\* ingestion runs started in one behaviour
MaxRuns == 3
\* records handed to one call of the text normaliser
MaxBatch == 2

(* ------------------------- program constants -------------------------- *)
None == "None"
Handle == "handle"
INDEX_NAME == "cosmos-airtable-index"
NAMESPACE == "airtable-namespace"
DEFAULT_TOP_K == 5
INDEX_DIMENSION == 384
INDEX_METRIC == "cosine"
\* output dimension of the pinned model 'all-MiniLM-L12-v2'
MODEL_DIMENSION == 384

(* ------------------------------ strings ------------------------------- *)
\* a query text is a sequence of characters; " " is the whitespace character
Chars == {" ", "a"}

RECURSIVE SeqsUpTo(_, _)
SeqsUpTo(S, n) ==
  IF n = 0 THEN {<<>>}
  ELSE LET shorter == SeqsUpTo(S, n - 1)
       IN shorter \cup {Append(s, c) : s \in {t \in shorter : Len(t) = n - 1}, c \in S}

QueryTexts == SeqsUpTo(Chars, MaxQueryLen)

RECURSIVE lstrip(_)
lstrip(s) == IF s # <<>> /\ Head(s) = " " THEN lstrip(Tail(s)) ELSE s

RECURSIVE rstrip(_)
rstrip(s) ==
  IF s # <<>> /\ s[Len(s)] = " " THEN rstrip(SubSeq(s, 1, Len(s) - 1)) ELSE s

\* str.strip()
strip(s) == rstrip(lstrip(s))

Digits == <<"0", "1", "2", "3", "4", "5", "6", "7", "8", "9">>

\* str(n) of a natural number, as used by the f-strings
RECURSIVE Str(_)
Str(n) == IF n < 10 THEN Digits[n + 1] ELSE Str(n \div 10) \o Digits[(n % 10) + 1]

Abs(x) == IF x < 0 THEN -x ELSE x
Min(a, b) == IF a < b THEN a ELSE b

(* ------------------------- embedding engine --------------------------- *)
RECURSIVE CountA(_)
CountA(s) == IF s = <<>> THEN 0 ELSE (IF Head(s) = "a" THEN 1 ELSE 0) + CountA(Tail(s))

\* model.encode([text])[0].tolist(): a deterministic vector of the model's
\* dimension; the text decides its direction, abstracted to one coordinate
Encode(text) == [dim |-> MODEL_DIMENSION, val |-> CountA(text)]

(* --------------------------- vector index ----------------------------- *)
\* similarity of two vectors under the index's metric: closer is higher
Score(q, v) == 0 - Abs(q.val - v.val)

NoMetadata == [tag |-> "None", airtable_id |-> "", searchable_text |-> <<>>]
Metadata(id, text) == [tag |-> "dict", airtable_id |-> id, searchable_text |-> text]
EmptyDict == [tag |-> "dict", airtable_id |-> "", searchable_text |-> <<>>]

\* entries already in the namespace when a query process starts
SeedEntries ==
  { [id |-> "r1", values |-> [dim |-> INDEX_DIMENSION, val |-> 0],
     metadata |-> Metadata("r1", <<"Name", ": ", "Ada">>)],
    [id |-> "r2", values |-> [dim |-> INDEX_DIMENSION, val |-> 1],
     metadata |-> Metadata("r2", <<"Name", ": ", "Bob">>)],
    [id |-> "r3", values |-> [dim |-> INDEX_DIMENSION, val |-> 2],
     metadata |-> NoMetadata] }

Match(e, q) == [id |-> e.id, score |-> Score(q, e.values), metadata |-> e.metadata]

\* index.query(vector, top_k, include_metadata, namespace).matches: every
\* ranking of the namespace's entries the index may return for top_k >= 1
Rankings(entries, q, k) ==
  LET n == Min(k, Cardinality(entries))
  IN { [i \in 1..n |-> Match(f[i], q)] :
         f \in { g \in [1..n -> entries] :
                   /\ \A i, j \in 1..n : i # j => g[i] # g[j]
                   /\ \A i, j \in 1..n : i < j => Score(q, g[i].values) >= Score(q, g[j].values)
                   /\ \A e \in entries :
                        (\A i \in 1..n : g[i] # e) =>
                          \A i \in 1..n : Score(q, g[i].values) >= Score(q, e.values) } }

\* the index rejects a query whose top_k is not a positive integer
IndexAcceptsTopK(k) == k >= 1

(* ------------------------------- state -------------------------------- *)
VARIABLES
  index,            \* the remote index INDEX_NAME: [exists, dimension, metric]
  namespace,        \* entries of NAMESPACE in that index
  srv,              \* server process: "boot", "serving" or "failed"
  pinecone_index,   \* backend.py global
  gemini_model,     \* backend.py global
  pc,               \* position of the request being handled by search_endpoint
  request,          \* the parsed SearchRequest
  query_vector,     \* search_endpoint local
  matches,          \* what index.query returned to this request
  search_results,   \* search_endpoint local
  response,         \* what the caller of POST /search receives
  log,              \* calls made while handling the current request, in order
  served,           \* requests received by this server process
  modelLoads,       \* SentenceTransformer(...) constructions in this server process
  cliPc,            \* position of single_query in a command-line process
  cliArgs,          \* single_query's arguments [query, top_k]
  cliVector,        \* single_query local query_vector
  cliLog,           \* calls made by single_query, in order
  cliReturn,        \* what single_query's caller gets: [raised, value]
  run,              \* per ingestion process: position and locals of main()
  runs,             \* ingestion runs started so far
  creations,        \* per create_index call made: did the index exist at that moment
  lastWrite,        \* per record id: the entry the latest successful upsert carried for it
  normIn,           \* the records given to a call of prepare_texts_for_encoding
  normOut           \* that call's result: [called, texts]

serverVars == <<srv, pinecone_index, gemini_model, pc, request, query_vector, matches,
                search_results, response, log, served, modelLoads>>
storeVars == <<index, namespace>>
cliVars == <<cliPc, cliArgs, cliVector, cliLog, cliReturn>>
ingestVars == <<run, runs, creations, lastWrite>>
normVars == <<normIn, normOut>>

NoVector == [dim |-> 0, val |-> 0]
NoRequest == [query |-> <<>>, top_k |-> DEFAULT_TOP_K]
NoResponse == [status |-> 0, detail |-> "", results |-> <<>>, query |-> <<>>,
               total_results |-> 0, ai_response |-> <<>>]

AbsentIndex == [exists |-> FALSE, dimension |-> 0, metric |-> ""]
\* an index of the same name made earlier for a model of another output dimension
ForeignIndex == [exists |-> TRUE, dimension |-> 2 * INDEX_DIMENSION, metric |-> INDEX_METRIC]
CreatedIndex == [exists |-> TRUE, dimension |-> INDEX_DIMENSION, metric |-> INDEX_METRIC]

(* --------------------------- query service ---------------------------- *)
\* a POST /search body: top_k may be omitted
Bodies == [query : QueryTexts, has_top_k : BOOLEAN, top_k : (-1)..MaxTopK]

\* class SearchRequest(BaseModel): query: str; top_k: int = 5
SearchRequest(body) ==
  [query |-> body.query, top_k |-> IF body.has_top_k THEN body.top_k ELSE DEFAULT_TOP_K]

HTTPException(status, detail) ==
  [status |-> status, detail |-> detail, results |-> <<>>, query |-> <<>>,
   total_results |-> 0, ai_response |-> <<>>]

\* setup_pinecone(): raises when the key is missing or the index is absent
setup_pinecone_ok(hasKey) == hasKey /\ index.exists

\* startup_event with the re-raise dropped: the process serves whatever was initialised
startup_event_swallow(pineOk, gemOk) == "serving"

\* startup_event: any failure of either setup is re-raised and the process does not serve
startup_event(pineOk, gemOk) == IF pineOk /\ gemOk THEN "serving" ELSE "failed"

Startup ==
  /\ srv = "boot"
  /\ \E pineKey, gemKey \in BOOLEAN :
       LET pineOk == setup_pinecone_ok(pineKey)
           gemOk == gemKey
       IN /\ pinecone_index' = IF pineOk THEN Handle ELSE None
          /\ gemini_model' = IF pineOk /\ gemOk THEN Handle ELSE None
          /\ srv' = startup_event(pineOk, gemOk)
  /\ UNCHANGED <<pc, request, query_vector, matches, search_results, response, log,
                 served, modelLoads>>
  /\ UNCHANGED storeVars
  /\ UNCHANGED cliVars
  /\ UNCHANGED ingestVars
  /\ UNCHANGED normVars

\* search_endpoint up to the first external call: the two checks of lines 136-140
Receive ==
  /\ srv = "serving"
  /\ pc \in {"idle", "done"}
  /\ served < MaxRequests
  /\ \E body \in Bodies :
       LET req == SearchRequest(body)
       IN /\ request' = req
          /\ IF pinecone_index = None
             THEN /\ response' = HTTPException(500, "Pinecone not initialized")
                  /\ pc' = "done"
             ELSE IF strip(req.query) = <<>>
             THEN /\ response' = HTTPException(400, "Query cannot be empty")
                  /\ pc' = "done"
             ELSE /\ response' = NoResponse
                  /\ pc' = "embed"
  /\ served' = served + 1
  /\ log' = <<>>
  /\ query_vector' = NoVector
  /\ matches' = <<>>
  /\ search_results' = <<>>
  /\ UNCHANGED <<srv, pinecone_index, gemini_model, modelLoads>>
  /\ UNCHANGED storeVars
  /\ UNCHANGED cliVars
  /\ UNCHANGED ingestVars
  /\ UNCHANGED normVars

\* search_endpoint going on to the index query whatever the embedding call did
after_embed_ignore_failure(ok) == "query"

\* search_endpoint after embed_query: an exception leaves the try block (line 176)
after_embed(ok) == IF ok THEN "query" ELSE "done"

\* query_vector = embed_query(request.query): the model is constructed inside the call
EmbedQuery ==
  /\ pc = "embed"
  /\ \E ok \in BOOLEAN :
       /\ log' = log \o <<"embed_start", IF ok THEN "embed_ok" ELSE "embed_fail">>
       /\ pc' = after_embed(ok)
       /\ query_vector' = IF ok THEN Encode(request.query) ELSE NoVector
       /\ response' = IF pc' = "done"
                      THEN HTTPException(500, "Search failed: embedding")
                      ELSE response
  /\ modelLoads' = modelLoads + 1
  /\ UNCHANGED <<srv, pinecone_index, gemini_model, request, matches, search_results, served>>
  /\ UNCHANGED storeVars
  /\ UNCHANGED cliVars
  /\ UNCHANGED ingestVars
  /\ UNCHANGED normVars

\* the conversion loop building the list back to front
ConvertResultsReversed(ms) ==
  [i \in 1..Len(ms) |->
     [score |-> ms[Len(ms) + 1 - i].score, id |-> ms[Len(ms) + 1 - i].id,
      metadata |-> IF ms[Len(ms) + 1 - i].metadata.tag = "None" THEN EmptyDict
                   ELSE ms[Len(ms) + 1 - i].metadata]]

\* lines 155-161: one SearchResult per match, metadata=match.metadata or {}
ConvertResults(ms) ==
  [i \in 1..Len(ms) |->
     [score |-> ms[i].score, id |-> ms[i].id,
      metadata |-> IF ms[i].metadata.tag = "None" THEN EmptyDict ELSE ms[i].metadata]]

\* results = query_pinecone(pinecone_index, query_vector, top_k=request.top_k, ...)
\* the index rejects the call
QueryPineconeFail ==
  /\ pc = "query"
  /\ log' = log \o <<"index_start", "index_fail">>
  /\ response' = HTTPException(500, "Search failed: index")
  /\ pc' = "done"
  /\ UNCHANGED <<srv, pinecone_index, gemini_model, request, query_vector, matches,
                 search_results, served, modelLoads>>
  /\ UNCHANGED storeVars
  /\ UNCHANGED cliVars
  /\ UNCHANGED ingestVars
  /\ UNCHANGED normVars

\* the index answers; lines 155-161 convert its matches
QueryPineconeOk ==
  /\ pc = "query"
  /\ IndexAcceptsTopK(request.top_k)
  /\ \E ms \in Rankings(namespace, query_vector, request.top_k) :
       /\ matches' = ms
       /\ search_results' = ConvertResults(ms)
  /\ log' = log \o <<"index_start", "index_ok">>
  /\ pc' = "synth"
  /\ UNCHANGED <<srv, pinecone_index, gemini_model, request, query_vector, response,
                 served, modelLoads>>
  /\ UNCHANGED storeVars
  /\ UNCHANGED cliVars
  /\ UNCHANGED ingestVars
  /\ UNCHANGED normVars

\* outcomes of gemini_model.generate_content(prompt) and of response.text
GenOutcomes == {"text", "empty_text", "call_raises", "text_raises"}

GenerationFails(handle, gen) == handle = None \/ gen \in {"call_raises", "text_raises"}

FallbackText(n) ==
  <<"I found ", Str(n), " relevant results, but encountered an error generating a detailed response.">>

\* generate_ai_response without its try/except
generate_ai_response_unguarded(handle, results, gen) ==
  IF GenerationFails(handle, gen)
  THEN [raised |-> TRUE, text |-> <<>>]
  ELSE [raised |-> FALSE, text |-> IF gen = "text" THEN <<"answer">> ELSE <<>>]

\* generate_ai_response: every exception inside is turned into the fallback string
generate_ai_response(handle, results, gen) ==
  IF GenerationFails(handle, gen)
  THEN [raised |-> FALSE, text |-> FallbackText(Len(results))]
  ELSE [raised |-> FALSE, text |-> IF gen = "text" THEN <<"answer">> ELSE <<>>]

\* lines 163-172: the synthesis call and the SearchResponse
Synthesize ==
  /\ pc = "synth"
  /\ \E gen \in GenOutcomes :
       LET r == generate_ai_response(gemini_model, search_results, gen)
       IN /\ log' = log \o <<"synth_start",
                             IF GenerationFails(gemini_model, gen) THEN "synth_fail"
                             ELSE "synth_ok">>
          /\ response' =
               IF r.raised THEN HTTPException(500, "Search failed: generation")
               ELSE [status |-> 200, detail |-> "", results |-> search_results,
                     query |-> request.query, total_results |-> Len(search_results),
                     ai_response |-> r.text]
  /\ pc' = "done"
  /\ UNCHANGED <<srv, pinecone_index, gemini_model, request, query_vector, matches,
                 search_results, served, modelLoads>>
  /\ UNCHANGED storeVars
  /\ UNCHANGED cliVars
  /\ UNCHANGED ingestVars
  /\ UNCHANGED normVars

(* ------------------------ command-line query -------------------------- *)
NoReturn == [returned |-> FALSE, raised |-> FALSE, value |-> <<>>]
Returned(ms) == [returned |-> TRUE, raised |-> FALSE, value |-> ms]

\* single_query(query, top_k=5) is called
SingleQuery ==
  /\ cliPc = "idle"
  /\ \E q \in QueryTexts, k \in ((-1)..MaxTopK) \cup {DEFAULT_TOP_K} :
       cliArgs' = [query |-> q, top_k |-> k]
  /\ cliPc' = "setup"
  /\ UNCHANGED <<cliVector, cliLog, cliReturn>>
  /\ UNCHANGED serverVars
  /\ UNCHANGED storeVars
  /\ UNCHANGED ingestVars
  /\ UNCHANGED normVars

\* index = setup_pinecone(); its exception is caught at line 168: return []
CliSetup ==
  /\ cliPc = "setup"
  /\ \E hasKey \in BOOLEAN :
       IF setup_pinecone_ok(hasKey)
       THEN /\ cliPc' = "embed"
            /\ cliReturn' = cliReturn
            /\ cliLog' = cliLog \o <<"setup_ok">>
       ELSE /\ cliPc' = "returned"
            /\ cliReturn' = Returned(<<>>)
            /\ cliLog' = cliLog \o <<"setup_fail">>
  /\ UNCHANGED <<cliArgs, cliVector>>
  /\ UNCHANGED serverVars
  /\ UNCHANGED storeVars
  /\ UNCHANGED ingestVars
  /\ UNCHANGED normVars

\* query_vector = embed_query(query)
CliEmbed ==
  /\ cliPc = "embed"
  /\ \E ok \in BOOLEAN :
       /\ cliLog' = cliLog \o <<"embed_start", IF ok THEN "embed_ok" ELSE "embed_fail">>
       /\ IF ok
          THEN /\ cliVector' = Encode(cliArgs.query)
               /\ cliPc' = "query"
               /\ cliReturn' = cliReturn
          ELSE /\ cliVector' = cliVector
               /\ cliPc' = "returned"
               /\ cliReturn' = Returned(<<>>)
  /\ UNCHANGED cliArgs
  /\ UNCHANGED serverVars
  /\ UNCHANGED storeVars
  /\ UNCHANGED ingestVars
  /\ UNCHANGED normVars

\* results = query_pinecone(index, query_vector, top_k=top_k) raises: return []
CliQueryFail ==
  /\ cliPc = "query"
  /\ cliLog' = cliLog \o <<"index_start", "index_fail">>
  /\ cliPc' = "returned"
  /\ cliReturn' = Returned(<<>>)
  /\ UNCHANGED <<cliArgs, cliVector>>
  /\ UNCHANGED serverVars
  /\ UNCHANGED storeVars
  /\ UNCHANGED ingestVars
  /\ UNCHANGED normVars

\* the index answers: display_results(results, query); return results
CliQueryOk ==
  /\ cliPc = "query"
  /\ IndexAcceptsTopK(cliArgs.top_k)
  /\ \E ms \in Rankings(namespace, cliVector, cliArgs.top_k) : cliReturn' = Returned(ms)
  /\ cliLog' = cliLog \o <<"index_start", "index_ok">>
  /\ cliPc' = "returned"
  /\ UNCHANGED <<cliArgs, cliVector>>
  /\ UNCHANGED serverVars
  /\ UNCHANGED storeVars
  /\ UNCHANGED ingestVars
  /\ UNCHANGED normVars

(* ----------------------------- ingestion ------------------------------ *)
\* the operators who may run the ingestion script at the same time
Procs == {"p1", "p2"}
RecordIds == {"r1", "r2"}

\* field values by Python type
StrV(cs) == [kind |-> "str", chars |-> cs, items |-> <<>>, num |-> 0]
IntV(n) == [kind |-> "int", chars |-> <<>>, items |-> <<>>, num |-> n]
\* a float, with the characters str() gives it
FloatV(cs) == [kind |-> "float", chars |-> cs, items |-> <<>>, num |-> 0]
BoolV(b) == [kind |-> "bool", chars |-> <<>>, items |-> <<>>, num |-> IF b THEN 1 ELSE 0]
NoneV == [kind |-> "none", chars |-> <<>>, items |-> <<>>, num |-> 0]
DictV == [kind |-> "dict", chars |-> <<>>, items |-> <<>>, num |-> 0]
\* a list: items are [str |-> BOOLEAN, chars |-> ...]
ListV(items) == [kind |-> "list", chars |-> <<>>, items |-> items, num |-> 0]

RECURSIVE Join(_, _)
\* sep.join(parts)
Join(sep, parts) ==
  IF parts = <<>> THEN <<>>
  ELSE IF Len(parts) = 1 THEN parts[1]
  ELSE parts[1] \o sep \o Join(sep, Tail(parts))

RECURSIVE StrChars(_)
\* str(n) as characters
StrChars(n) == IF n < 10 THEN <<Digits[n + 1]>> ELSE StrChars(n \div 10) \o <<Digits[(n % 10) + 1]>>

\* f"{value}" of a field value that passed the isinstance tests
FormatValue(v) ==
  IF v.kind \in {"str", "float"} THEN v.chars
  ELSE IF v.kind = "bool" THEN (IF v.num = 1 THEN <<"T", "r", "u", "e">> ELSE <<"F", "a", "l", "s", "e">>)
  ELSE IF v.kind = "int" THEN StrChars(v.num)
  ELSE Join(<<",", " ">>, [i \in 1..Len(v.items) |-> v.items[i].chars])

\* the list test without its all(...) part
FieldEligibleAnyList(v) == v.kind \in {"str", "int", "float", "bool", "list"}

\* lines 76-79: isinstance(value, (str, int, float)), which a bool passes
\* too, or a list of str only
FieldEligible(v) ==
  \/ v.kind \in {"str", "int", "float", "bool"}
  \/ v.kind = "list" /\ \A i \in 1..Len(v.items) : v.items[i].str

RECURSIVE TextParts(_)
\* the text_parts list built by the inner loop over fields.items()
TextParts(fields) ==
  IF fields = <<>> THEN <<>>
  ELSE (IF FieldEligible(Head(fields).value)
        THEN << Head(fields).name \o <<":", " ">> \o FormatValue(Head(fields).value) >>
        ELSE <<>>) \o TextParts(Tail(fields))

\* record.get('fields', {})
record_fields(record) == IF record.has_fields THEN record.fields ELSE <<>>

\* prepare_texts_for_encoding: one stripped text per record, in order
prepare_texts_for_encoding(records) ==
  [i \in 1..Len(records) |-> strip(Join(<<".", " ">>, TextParts(record_fields(records[i]))))]

\* generate_vectors: model.encode(texts), one vector per text
generate_vectors(texts) == [i \in 1..Len(texts) |-> Encode(texts[i])]

\* the payload giving every entry the first record's text
create_vector_db_payload_first_text(records, texts, vectors) ==
  [i \in 1..Len(records) |->
     [airtable_id |-> records[i].id, searchable_text |-> texts[1], vector |-> vectors[i]]]

\* create_vector_db_payload
create_vector_db_payload(records, texts, vectors) ==
  [i \in 1..Len(records) |->
     [airtable_id |-> records[i].id, searchable_text |-> texts[i], vector |-> vectors[i]]]

\* the Pinecone record keyed by its position in the payload
pinecone_record_by_position(record, i) ==
  [id |-> Str(i - 1), values |-> record.vector,
   metadata |-> Metadata(record.airtable_id, record.searchable_text)]

\* lines 143-153: the Pinecone record of payload entry i
pinecone_record(record, i) ==
  [id |-> record.airtable_id, values |-> record.vector,
   metadata |-> Metadata(record.airtable_id, record.searchable_text)]

pinecone_records(payload) == [i \in 1..Len(payload) |-> pinecone_record(payload[i], i)]

\* dense_index.upsert(vectors, namespace): an entry replaces the one with its id
Upsert(ns, recs) ==
  {e \in ns : \A i \in 1..Len(recs) : recs[i].id # e.id}
    \cup {recs[i] : i \in {j \in 1..Len(recs) : \A l \in (j + 1)..Len(recs) : recs[l].id # recs[j].id}}

\* the index refuses an upsert carrying a vector of another dimension than its own
IndexAcceptsVectors(recs) == \A i \in 1..Len(recs) : recs[i].values.dim = index.dimension

\* the field mappings a record of the table may hold
FieldOptions ==
  { << [name |-> <<"n">>, value |-> StrV(<<"a">>)] >>,
    << [name |-> <<"n">>, value |-> NoneV], [name |-> <<"m">>, value |-> StrV(<<"a", "a">>)] >> }

\* table.all(): the rows of the table, each id once
Tables ==
  { t \in UNION { [1..n -> [id : RecordIds, has_fields : {TRUE}, fields : FieldOptions]] :
                    n \in 0..Cardinality(RecordIds) } :
      \A i, j \in 1..Len(t) : i # j => t[i].id # t[j].id }

\* events: the steps of the run in order; sent: the batches handed to upsert calls
IdleRun == [pc |-> "idle", records |-> <<>>, payload |-> <<>>, loads |-> 0, upserts |-> 0,
            outcome |-> "", events |-> <<>>, sent |-> <<>>]

\* main() up to line 185: configuration, setup_airtable_api, fetch_airtable_data
IngestFetch(p) ==
  /\ run[p].pc \in {"idle", "done"}
  /\ runs < MaxRuns
  /\ runs' = runs + 1
  /\ \E configured \in BOOLEAN, t \in Tables :
       IF configured /\ t # <<>>
       THEN run' = [run EXCEPT ![p] = [IdleRun EXCEPT !.pc = "fetched", !.records = t]]
       ELSE run' = [run EXCEPT ![p] = [IdleRun EXCEPT !.pc = "done", !.outcome = "no_records"]]
  /\ UNCHANGED <<creations, lastWrite>>
  /\ UNCHANGED storeVars
  /\ UNCHANGED serverVars
  /\ UNCHANGED cliVars
  /\ UNCHANGED normVars

\* lines 188-194: prepare texts, load the model once and encode, build the payload
IngestEmbed(p) ==
  /\ run[p].pc = "fetched"
  /\ \E ok \in BOOLEAN :
       IF ok
       THEN LET texts == prepare_texts_for_encoding(run[p].records)
                vectors == generate_vectors(texts)
            IN run' = [run EXCEPT ![p].pc = "has_index", ![p].loads = @ + 1,
                         ![p].payload = create_vector_db_payload(run[p].records, texts, vectors),
                         ![p].events = @ \o <<"prepare", "embed_start", "embed_ok">>]
       ELSE run' = [run EXCEPT ![p].pc = "done", ![p].loads = @ + 1, ![p].outcome = "error",
                      ![p].events = @ \o <<"prepare", "embed_start", "embed_fail">>]
  /\ UNCHANGED <<runs, creations, lastWrite>>
  /\ UNCHANGED storeVars
  /\ UNCHANGED serverVars
  /\ UNCHANGED cliVars
  /\ UNCHANGED normVars

\* lines 123-126: pc = Pinecone(api_key=...), which raises without a key, then
\* if not pc.has_index(INDEX_NAME)
IngestHasIndex(p) ==
  /\ run[p].pc = "has_index"
  /\ \E hasKey \in BOOLEAN :
       IF hasKey
       THEN run' = [run EXCEPT ![p].pc = IF index.exists THEN "upsert" ELSE "create",
                               ![p].events = Append(@, "has_index")]
       ELSE run' = [run EXCEPT ![p].pc = "done", ![p].outcome = "error",
                               ![p].events = Append(@, "client_fail")]
  /\ UNCHANGED <<runs, creations, lastWrite>>
  /\ UNCHANGED storeVars
  /\ UNCHANGED serverVars
  /\ UNCHANGED cliVars
  /\ UNCHANGED normVars

\* lines 127-136: pc.create_index(name=INDEX_NAME, dimension=384, metric="cosine");
\* the service refuses a name that exists and the exception ends the run
IngestCreateIndex(p) ==
  /\ run[p].pc = "create"
  /\ creations' = Append(creations, index.exists)
  /\ IF index.exists
     THEN /\ run' = [run EXCEPT ![p].pc = "done", ![p].outcome = "error",
                             ![p].events = @ \o <<"create_index", "create_index_fail">>]
          /\ index' = index
     ELSE /\ run' = [run EXCEPT ![p].pc = "upsert", ![p].events = Append(@, "create_index")]
          /\ index' = CreatedIndex
  /\ UNCHANGED <<runs, lastWrite, namespace>>
  /\ UNCHANGED serverVars
  /\ UNCHANGED cliVars
  /\ UNCHANGED normVars

\* lines 139-158: build the Pinecone records and upsert them in one call
IngestUpsert(p) ==
  /\ run[p].pc = "upsert"
  /\ \E ok \in BOOLEAN :
       IF ok /\ IndexAcceptsVectors(pinecone_records(run[p].payload))
       THEN /\ namespace' = Upsert(namespace, pinecone_records(run[p].payload))
            /\ run' = [run EXCEPT ![p].pc = "done", ![p].upserts = @ + 1, ![p].outcome = "ok",
                          ![p].events = Append(@, "upsert"),
                          ![p].sent = Append(@, pinecone_records(run[p].payload))]
            /\ lastWrite' =
                 [id \in RecordIds |->
                    IF \E i \in 1..Len(run[p].payload) : run[p].payload[i].airtable_id = id
                    THEN LET i == CHOOSE i \in 1..Len(run[p].payload) :
                                     run[p].payload[i].airtable_id = id
                         IN {[id |-> id, values |-> run[p].payload[i].vector,
                              metadata |-> Metadata(id, run[p].payload[i].searchable_text)]}
                    ELSE lastWrite[id]]
       ELSE /\ namespace' = namespace
            /\ run' = [run EXCEPT ![p].pc = "done", ![p].outcome = "error",
                          ![p].events = Append(@, "upsert"),
                          ![p].sent = Append(@, pinecone_records(run[p].payload))]
            /\ lastWrite' = lastWrite
  /\ UNCHANGED <<runs, creations, index>>
  /\ UNCHANGED serverVars
  /\ UNCHANGED cliVars
  /\ UNCHANGED normVars

(* --------------------------- text normaliser -------------------------- *)
\* field values of every kind the normaliser tells apart
NormValues ==
  { StrV(<<"a">>), IntV(7), FloatV(<<"1", ".", "5">>), BoolV(TRUE), NoneV, DictV,
    ListV(<<>>),
    ListV(<< [str |-> TRUE, chars |-> <<"a">>], [str |-> TRUE, chars |-> <<"b">>] >>),
    ListV(<< [str |-> TRUE, chars |-> <<"a">>], [str |-> FALSE, chars |-> <<>>] >>) }

\* a record's fields: none, "n" alone, or "n" followed by "m"
NormFields ==
  {<<>>}
    \cup { << [name |-> <<"n">>, value |-> v] >> : v \in NormValues }
    \cup { << [name |-> <<"n">>, value |-> v], [name |-> <<"m">>, value |-> w] >> :
             v \in NormValues, w \in NormValues }

\* records with a fields mapping, and the record without one
NormRecords ==
  { [id |-> "r1", has_fields |-> TRUE, fields |-> f] : f \in NormFields }
    \cup { [id |-> "r1", has_fields |-> FALSE, fields |-> <<>>] }

NormBatches == UNION { [1..n -> NormRecords] : n \in 0..MaxBatch }

NotCalled == [called |-> FALSE, texts |-> <<>>]

\* prepared_texts = prepare_texts_for_encoding(records)
Normalize ==
  /\ ~normOut.called
  /\ normOut' = [called |-> TRUE, texts |-> prepare_texts_for_encoding(normIn)]
  /\ UNCHANGED normIn
  /\ UNCHANGED serverVars
  /\ UNCHANGED storeVars
  /\ UNCHANGED cliVars
  /\ UNCHANGED <<run, runs, creations, lastWrite>>

(* -------------------------- specifications ---------------------------- *)
InitStore ==
  /\ index \in {AbsentIndex, CreatedIndex}
  /\ namespace \in IF index.exists THEN SUBSET SeedEntries ELSE {{}}

InitServerVars ==
  /\ srv = "boot"
  /\ pinecone_index = None
  /\ gemini_model = None
  /\ pc = "idle"
  /\ request = NoRequest
  /\ query_vector = NoVector
  /\ matches = <<>>
  /\ search_results = <<>>
  /\ response = NoResponse
  /\ log = <<>>
  /\ served = 0
  /\ modelLoads = 0

InitCliVars ==
  /\ cliPc = "idle"
  /\ cliArgs = NoRequest
  /\ cliVector = NoVector
  /\ cliLog = <<>>
  /\ cliReturn = NoReturn

InitIngestVars ==
  /\ run = [p \in Procs |-> IdleRun]
  /\ runs = 0
  /\ creations = <<>>
  /\ lastWrite = [id \in RecordIds |-> {}]
  /\ normIn = <<>>
  /\ normOut = NotCalled

vars == <<index, namespace, srv, pinecone_index, gemini_model, pc, request, query_vector,
          matches, search_results, response, log, served, modelLoads,
          cliPc, cliArgs, cliVector, cliLog, cliReturn, run, runs, creations, lastWrite,
          normIn, normOut>>

InitServer == InitStore /\ InitServerVars /\ InitCliVars /\ InitIngestVars

NextServer ==
  \/ Startup
  \/ Receive
  \/ EmbedQuery
  \/ QueryPineconeFail
  \/ QueryPineconeOk
  \/ Synthesize

\* one server process handling POST /search requests one after another
SpecServer == InitServer /\ [][NextServer]_vars

InitCli == InitStore /\ InitServerVars /\ InitCliVars /\ InitIngestVars

NextCli ==
  \/ SingleQuery
  \/ CliSetup
  \/ CliEmbed
  \/ CliQueryFail
  \/ CliQueryOk

\* one command-line process running single_query
SpecCli == InitCli /\ [][NextCli]_vars

InitIngest ==
  /\ index \in {AbsentIndex, CreatedIndex}
  /\ namespace = {}
  /\ InitServerVars /\ InitCliVars /\ InitIngestVars

NextIngest ==
  \/ \E p \in Procs : IngestFetch(p)
  \/ \E p \in Procs : IngestEmbed(p)
  \/ \E p \in Procs : IngestHasIndex(p)
  \/ \E p \in Procs : IngestCreateIndex(p)
  \/ \E p \in Procs : IngestUpsert(p)

\* ingestion runs of the script, by operators who may overlap
SpecIngest == InitIngest /\ [][NextIngest]_vars

InitForeign ==
  /\ index \in {AbsentIndex, ForeignIndex}
  /\ namespace = {}
  /\ InitServerVars /\ InitCliVars /\ InitIngestVars

\* ingestion runs against an account where the index name may already be
\* taken by an index of another dimension
SpecForeign == InitForeign /\ [][NextIngest]_vars

InitNormalize ==
  /\ index = AbsentIndex
  /\ namespace = {}
  /\ InitServerVars /\ InitCliVars
  /\ run = [p \in Procs |-> IdleRun]
  /\ runs = 0
  /\ creations = <<>>
  /\ lastWrite = [id \in RecordIds |-> {}]
  /\ normIn \in NormBatches
  /\ normOut = NotCalled

NextNormalize == Normalize

\* one call of the text normaliser on any batch of records
SpecNormalize == InitNormalize /\ [][NextNormalize]_vars

(* ------------------------------ properties ---------------------------- *)
InLog(l, e) == \E i \in 1..Len(l) : l[i] = e
Count(l, e) == Cardinality({i \in 1..Len(l) : l[i] = e})
Blank(q) == strip(q) = <<>>
SameIdsAndScores(rs, ms) ==
  /\ Len(rs) = Len(ms)
  /\ \A i \in 1..Len(ms) : rs[i].id = ms[i].id /\ rs[i].score = ms[i].score

\* C1 (as claimed): a query whose text is empty or only whitespace is rejected
\* with a validation error, and neither the embedding engine nor the index is
\* called for it, through POST /search and through single_query alike.
C1_BlankQueryRejected ==
  /\ (pc = "done" /\ Blank(request.query)) => (response.status = 400 /\ log = <<>>)
  /\ (cliPc # "idle" /\ Blank(cliArgs.query)) =>
       /\ ~InLog(cliLog, "embed_start")
       /\ ~InLog(cliLog, "index_start")
       /\ (cliPc = "returned" /\ InLog(cliLog, "setup_ok")) => cliReturn.raised

\* C2: when embedding and the index query succeeded and the generation call
\* fails, the request still answers 200, the answer is the non-empty fallback
\* text naming the number of retrieved results, and the results are the
\* index's matches.
C2_GenerationFailureDegrades ==
  (pc = "done" /\ InLog(log, "synth_fail")) =>
    /\ response.status = 200
    /\ response.ai_response # <<>>
    /\ \E i \in 1..Len(response.ai_response) : response.ai_response[i] = Str(Len(matches))
    /\ SameIdsAndScores(response.results, matches)

C2_Witness ==
  /\ pc = "done"
  /\ InLog(log, "synth_fail")
  /\ Len(matches) = 2
  /\ response.status = 200

Accepted == pc # "idle" /\ pinecone_index # None /\ ~Blank(request.query)

\* C3: an accepted request makes exactly one embedding call, at most one index
\* query and at most one synthesis call; the index query starts right after a
\* successful embedding, the synthesis right after a successful index query,
\* and a failed step is the last call of the request.
C3_CallsInOrder ==
  Accepted =>
    /\ Count(log, "embed_start") <= 1
    /\ pc \in {"query", "synth", "done"} => Count(log, "embed_start") = 1
    /\ Count(log, "index_start") <= 1
    /\ Count(log, "synth_start") <= 1
    /\ \A i \in 1..Len(log) : log[i] = "index_start" => (i > 1 /\ log[i - 1] = "embed_ok")
    /\ \A i \in 1..Len(log) : log[i] = "synth_start" => (i > 1 /\ log[i - 1] = "index_ok")
    /\ \A i \in 1..Len(log) : log[i] \in {"embed_fail", "index_fail"} => i = Len(log)

C3_Witness ==
  /\ pc = "done"
  /\ log = <<"embed_start", "embed_ok", "index_start", "index_ok", "synth_start", "synth_ok">>

\* C4 (as claimed): the embedding model is loaded at most once per process,
\* however many queries the process handles, and once per ingestion run.
C4_ModelLoadedOnce ==
  /\ modelLoads <= 1
  /\ \A p \in Procs : run[p].loads <= 1

\* C5 (as claimed): an omitted top_k is 5, a request whose top_k is not
\* positive is rejected with a validation error before the index is queried,
\* and no index query is issued with top_k <= 0.
C5_TopKValidated ==
  /\ \A b \in Bodies : ~b.has_top_k => SearchRequest(b).top_k = 5
  /\ InLog(log, "index_start") => request.top_k >= 1
  /\ (pc = "done" /\ ~Blank(request.query) /\ request.top_k < 1) => response.status = 400

EntriesOf(id) == {e \in namespace : e.id = id}

\* C6: the namespace holds at most one entry per id, every ingested record id
\* has exactly the entry the latest successful upsert carried for it, and an
\* upsert whose ids are all present leaves the number of entries unchanged.
C6_UpsertIdempotent ==
  /\ [](/\ \A e1, e2 \in namespace : e1.id = e2.id => e1 = e2
        /\ \A id \in RecordIds : lastWrite[id] # {} => EntriesOf(id) = lastWrite[id])
  /\ [][\A p \in Procs :
          (/\ run'[p].upserts = run[p].upserts + 1
           /\ \A i \in 1..Len(run[p].payload) : EntriesOf(run[p].payload[i].airtable_id) # {})
          => Cardinality(namespace') = Cardinality(namespace)]_vars

\* a second run has overwritten r1 with a different vector, r2 staying
C6_Witness ==
  /\ \E p \in Procs : run[p].pc = "done" /\ run[p].upserts = 1
  /\ runs >= 2
  /\ Cardinality(namespace) = 2
  /\ \E e \in namespace : e.id = "r1" /\ e.values.val = 2
  /\ \E e \in namespace : e.id = "r2" /\ e.values.val = 1

\* C7 (as claimed): a failure of the embedding model or of the index during a
\* query reaches the caller as an explicit failure with a message, never as a
\* successful or empty result.
C7_DependencyFailureSurfaced ==
  /\ (pc = "done" /\ (InLog(log, "embed_fail") \/ InLog(log, "index_fail")))
       => (response.status = 500 /\ response.detail # "")
  /\ (cliPc = "returned" /\ (InLog(cliLog, "embed_fail") \/ InLog(cliLog, "index_fail")))
       => cliReturn.raised

\* C8: a failed startup serves no request; a request that reaches the
\* embedding step finds both handles initialised; and after startup no step
\* changes either handle.
C8_StartupFailsFast ==
  /\ [](srv = "failed" => (pc = "idle" /\ served = 0))
  /\ [](pc = "embed" => (srv = "serving" /\ pinecone_index = Handle /\ gemini_model = Handle))
  /\ [][srv # "boot" => UNCHANGED <<pinecone_index, gemini_model>>]_vars

C8_Witness ==
  /\ pc = "embed"
  /\ served = 2
  /\ pinecone_index = Handle
  /\ gemini_model = Handle

\* C9: a successful response carries the index's matches in their order with
\* their ids and scores, scores never increase along it, it is no longer than
\* top_k, and total_results is its length.
C9_ResultsUnmodified ==
  (pc = "done" /\ response.status = 200) =>
    /\ SameIdsAndScores(response.results, matches)
    /\ \A i, j \in 1..Len(response.results) :
         i < j => response.results[i].score >= response.results[j].score
    /\ Len(response.results) <= request.top_k
    /\ response.total_results = Len(response.results)

\* three entries in the namespace, two returned, the first scoring higher
C9_Witness ==
  /\ pc = "done"
  /\ response.status = 200
  /\ Cardinality(namespace) = 3
  /\ request.top_k = 2
  /\ Len(response.results) = 2
  /\ response.results[1].score > response.results[2].score

\* C10 (as claimed): across any interleaving of ingestion runs create_index is
\* never called for a name that exists, and an existing index keeps its
\* dimension and metric.
C10_CreateOnlyIfAbsent ==
  /\ \A i \in 1..Len(creations) : ~creations[i]
  /\ index.exists => index = CreatedIndex

\* C11 (as claimed): no upsert and no query is ever sent to the index with a
\* vector whose dimension differs from the index's declared dimension.
C11_DimensionChecked ==
  /\ \A p \in Procs : \A c \in 1..Len(run[p].sent) : \A i \in 1..Len(run[p].sent[c]) :
       run[p].sent[c][i].values.dim = index.dimension
  /\ InLog(log, "index_start") => query_vector.dim = index.dimension
  /\ InLog(cliLog, "index_start") => cliVector.dim = index.dimension

Scalar(v) == v.kind \in {"str", "int", "float", "bool"}
StringList(v) == v.kind = "list" /\ \A i \in 1..Len(v.items) : v.items[i].str
Contributing(fields) == SelectSeq(fields, LAMBDA f : Scalar(f.value) \/ StringList(f.value))
Fragments(fields) ==
  [i \in 1..Len(Contributing(fields)) |->
     Contributing(fields)[i].name \o <<":", " ">> \o FormatValue(Contributing(fields)[i].value)]
FieldsOf(record) == IF record.has_fields THEN record.fields ELSE <<>>

\* C12: the normaliser returns one text per record in record order; the text
\* is made of the "name: value" fragments of exactly the fields whose value is
\* a scalar or a list of strings only, in field order, joined by ". "; a
\* record with no such field, or with no fields mapping, gives the empty text.
C12_NormalizeFields ==
  normOut.called =>
    /\ Len(normOut.texts) = Len(normIn)
    /\ \A i \in 1..Len(normIn) :
         /\ normOut.texts[i] = strip(Join(<<".", " ">>, Fragments(FieldsOf(normIn[i]))))
         /\ Contributing(FieldsOf(normIn[i])) = <<>> => normOut.texts[i] = <<>>

\* first record: a mixed list dropped before a string list kept; second
\* record: no fields mapping
C12_Witness ==
  /\ normOut.called
  /\ Len(normIn) = 2
  /\ normIn[1].has_fields
  /\ Len(normIn[1].fields) = 2
  /\ normIn[1].fields[1].value.kind = "list" /\ ~StringList(normIn[1].fields[1].value)
  /\ StringList(normIn[1].fields[2].value) /\ Len(normIn[1].fields[2].value.items) = 2
  /\ normOut.texts[1] = <<"m", ":", " ", "a", ",", " ", "b">>
  /\ ~normIn[2].has_fields
  /\ normOut.texts[2] = <<>>

\* the text the normaliser gives one record
TextOf(record) == strip(Join(<<".", " ">>, Fragments(FieldsOf(record))))

\* every index creation and upsert of run r comes after its embedding finished
EmbeddedFirst(r) ==
  \A i \in 1..Len(r.events) :
    r.events[i] \in {"create_index", "upsert"} => \E j \in 1..(i - 1) : r.events[j] = "embed_ok"

\* every batch run r handed to upsert has one entry per fetched record, entry
\* i carrying record i's id, normalised text and vector
EntryPerRecord(r) ==
  \A c \in 1..Len(r.sent) :
    /\ Len(r.sent[c]) = Len(r.records)
    /\ \A i \in 1..Len(r.records) :
         /\ r.sent[c][i].id = r.records[i].id
         /\ r.sent[c][i].metadata.searchable_text = TextOf(r.records[i])
         /\ r.sent[c][i].values = Encode(TextOf(r.records[i]))

\* a run without records issues no index creation and no upsert
NothingWithoutRecords(r) ==
  r.records = <<>> => (~InLog(r.events, "create_index") /\ ~InLog(r.events, "upsert"))

====
